---------------------------- MODULE Spec2Model ----------------------------
(***************************************************************************)
(* GeeCache: a byte-bounded LRU engine (package lru), a consistent-hash    *)
(* ring (package consistenthash) and the group coordinator (package        *)
(* geecache) that puts a loader and a peer picker behind Group.Get.        *)
(*                                                                         *)
(* Go strings and []byte are modelled as sequences of small naturals, so   *)
(* len(s) is Len(s), s + t is s \o t and "" is << >>.                      *)
(***************************************************************************)
EXTENDS Integers, Sequences, FiniteSets, TLC

VARIABLES
    \* ---- package lru: one Cache and what its caller observed ----
    c,            \* the lru.Cache: maxBytes, nowBytes, ll, cache, OnEvicted
    lastOp,       \* the last public call on c: [op, key, value, hit]
    lastRet,      \* what that call returned: [value, ok]
    lastCalls,    \* the OnEvicted invocations that call made, in order
    lastGone,     \* the entries that left the engine during that call
    nCallbacks,   \* OnEvicted invocations since New
    nAdmitted,    \* entries inserted under a new key since New
    recency,      \* resident keys, most recently promoted first
    \* ---- package consistenthash: one Map ----
    m,            \* the consistenthash.Map: replicas, keys, hashMap
    registered,   \* peers added and not removed since
    seen,         \* peers ever passed to Add or Remove
    ringOp,       \* the last call on m, with the Map as it was before it
    got,          \* the last Map.Get: [key, peer], or NoGet
    panicked,     \* a call on m panicked (slice bounds out of range)
    addsOnly,     \* no Remove was called on m so far
    \* ---- package geecache: one Group, its callers and its environment ----
    mainCache,    \* the cache shell: cacheBytes, lru, mu
    peers,        \* Group.peers: NoPicker or a picker
    src,          \* the loader's own buffer per key: its content now
    loadedBytes,  \* per key: the bytes the loader returned for the copy last admitted
    pc,           \* per thread: where it is inside Group.Get
    call,         \* per thread: the Get in progress and what it did
    attach,       \* the last RegisterPeers: [op, picker, before, panicked]
    \* ---- package geecache: one HTTPPool ----
    pool,         \* the HTTPPool: self, basePath, peers, httpClient
    picked,       \* the last PickPeer on it: [key, client, ok, panicked]
    \* ---- package geecache: the peer server and the registry of groups ----
    groups,       \* the registry: group name -> the group's cache shell
    response,     \* the last ServeHTTP: [path, status, body, panicked]
    \* ---- package lru: one Cache.Add, statement by statement ----
    addC,         \* the lru.Cache the Add works on
    addPc,        \* "idle" between calls, "loop" at the head of Add's loop
    \* ---- a fleet of nodes, each with a pool, a group and a peer server ----
    nodes,        \* per node: its HTTPPool and its group's cache shell
    chain,        \* the Group.Get calls in progress: the client's, then the
                  \* ones peer servers make for it, innermost last
    req           \* the client's Get: origin, key, route, fetches, result

lruVars == <<c, lastOp, lastRet, lastCalls, lastGone, nCallbacks, nAdmitted, recency>>
ringVars == <<m, registered, seen, ringOp, got, panicked, addsOnly>>
groupVars == <<mainCache, peers, src, loadedBytes, pc, call, attach>>
poolVars == <<pool, picked>>
serverVars == <<groups, response>>
addVars == <<addC, addPc>>
fleetVars == <<nodes, chain, req>>
vars == <<lruVars, ringVars, groupVars, poolVars, serverVars, addVars, fleetVars>>

--------------------------------------------------------------------------
(* Bounds of the model.                                                    *)

\* longest value (in bytes) a caller stores or a loader returns
MaxValLen == 2
\* entries admitted under a new key before the LRU model stops admitting
MaxAdmits == 3
\* longest hash ring (virtual nodes) the ring model grows
MaxRing == 4

--------------------------------------------------------------------------
(* Helpers on sequences.                                                   *)

Range(s) == { s[i] : i \in 1..Len(s) }

RECURSIVE SumSeq(_)
SumSeq(s) == IF s = << >> THEN 0 ELSE Head(s) + SumSeq(Tail(s))

\* s without its i-th element
DropAt(s, i) == SubSeq(s, 1, i - 1) \o SubSeq(s, i + 1, Len(s))

Bytes == {7, 8}

\* the contents of the model's byte slices: runs of one byte, of every length
\* allowed
ByteSeqs == { [i \in 1..n |-> b] : n \in 0..MaxValLen, b \in Bytes }

\* A []byte is a reference to a buffer.  A buffer that only the slice's holder
\* can reach is modelled by its content (own); the buffer a loader hands out
\* and keeps is modelled by reference: the loader's buffer for a key, whose
\* content is src[key] at the time it is read.
Owned(data) == [ own |-> TRUE, key |-> << >>, data |-> data ]
LoaderBuffer(key) == [ own |-> FALSE, key |-> key, data |-> << >> ]

\* the bytes a slice holds now
SliceBytes(b) == IF b.own THEN b.data ELSE src[b.key]

\* cloneBytes: a fresh buffer with a copy of the bytes
CloneBytes(b) == Owned(SliceBytes(b))

\* ByteView{b: b}
ByteView(b) == [ b |-> b ]

\* ByteView{}: the zero view
ZeroView == ByteView(Owned(<< >>))

\* ByteView.Len
ViewLen(v) == Len(SliceBytes(v.b))

\* ByteView.ByteSlice: a copy of the bytes
ByteSlice(v) == CloneBytes(v.b)

\* ByteView.String
ViewString(v) == SliceBytes(v.b)

\* the values stored in the engine exercised alone: views that own their bytes
Values == { ByteView(Owned(d)) : d \in ByteSeqs }

--------------------------------------------------------------------------
(* package lru                                                             *)

\* keys of two lengths, so that len(key) matters in an entry's weight
LKeys == { <<1>>, <<2>>, <<3, 3>> }

\* the ceilings New is called with: unbounded, room for one small entry,
\* room for up to three
CeilingChoices == {0, 3, 6}

\* Value.Len() of a stored value (ByteView is the Value of this repository)
ValueLen(v) == ViewLen(v)

\* len(kv.key) + kv.value.Len()
EntryBytes(e) == Len(e.key) + ValueLen(e.value)

\* lru.New(maxBytes, onEvicted); onEvicted is TRUE for a callback, FALSE for nil
New(maxBytes, onEvicted) ==
    [ maxBytes  |-> maxBytes,
      nowBytes  |-> 0,
      ll        |-> << >>,
      cache     |-> {},
      OnEvicted |-> onEvicted ]

\* the list element the map holds for key: its position in ll
Element(cc, key) == CHOOSE i \in 1..Len(cc.ll) : cc.ll[i].key = key

\* list.MoveToFront
MoveToFront(ll, i) == <<ll[i]>> \o DropAt(ll, i)

\* Cache.Get: [c, value, ok]
LruGet(cc, key) ==
    IF key \in cc.cache
    THEN LET ele == Element(cc, key)
         IN [ c     |-> [cc EXCEPT !.ll = MoveToFront(cc.ll, ele)],
              value |-> cc.ll[ele].value,
              ok    |-> TRUE ]
    ELSE [ c |-> cc, value |-> ZeroView, ok |-> FALSE ]

\* (faulty variant of RemoveOldest: takes c.ll.Front() instead of c.ll.Back())
RemoveOldestFront(cc) ==
    IF cc.ll # << >>
    THEN LET kv == cc.ll[1]
         IN [ c |-> [cc EXCEPT !.ll = Tail(cc.ll),
                               !.cache = cc.cache \ {kv.key},
                               !.nowBytes = cc.nowBytes - EntryBytes(kv)],
              calls |-> IF cc.OnEvicted THEN <<kv>> ELSE << >> ]
    ELSE [ c |-> cc, calls |-> << >> ]
\* Cache.RemoveOldest: [c, calls], calls being the OnEvicted invocations
RemoveOldest(cc) ==
    IF cc.ll # << >>
    THEN LET kv == cc.ll[Len(cc.ll)]
         IN [ c |-> [cc EXCEPT !.ll = SubSeq(cc.ll, 1, Len(cc.ll) - 1),
                               !.cache = cc.cache \ {kv.key},
                               !.nowBytes = cc.nowBytes - EntryBytes(kv)],
              calls |-> IF cc.OnEvicted THEN <<kv>> ELSE << >> ]
    ELSE [ c |-> cc, calls |-> << >> ]

\* the loop that ends Cache.Add: for c.maxBytes != 0 && c.maxBytes < c.nowBytes
RECURSIVE EvictLoop(_, _)
EvictLoop(cc, calls) ==
    IF cc.maxBytes # 0 /\ cc.maxBytes < cc.nowBytes
    THEN LET r == RemoveOldest(cc) IN EvictLoop(r.c, calls \o r.calls)
    ELSE [ c |-> cc, calls |-> calls ]

\* (faulty variant of AdmitNoLoop: a new entry is charged value.Len() only)
AdmitNoKeyLen(cc, key, value) ==
    IF key \in cc.cache
    THEN LET ele == Element(cc, key)
         IN [cc EXCEPT !.ll = MoveToFront([cc.ll EXCEPT ![ele].value = value], ele),
                       !.nowBytes = cc.nowBytes + ValueLen(value)
                                               - ValueLen(cc.ll[ele].value)]
    ELSE [cc EXCEPT !.ll = <<[key |-> key, value |-> value]>> \o cc.ll,
                    !.cache = cc.cache \cup {key},
                    !.nowBytes = cc.nowBytes + ValueLen(value)]
\* (faulty variant of AdmitNoLoop: a replaced entry stays where it is)
AdmitNoPromote(cc, key, value) ==
    IF key \in cc.cache
    THEN LET ele == Element(cc, key)
         IN [cc EXCEPT !.ll = [cc.ll EXCEPT ![ele].value = value],
                       !.nowBytes = cc.nowBytes + ValueLen(value)
                                               - ValueLen(cc.ll[ele].value)]
    ELSE [cc EXCEPT !.ll = <<[key |-> key, value |-> value]>> \o cc.ll,
                    !.cache = cc.cache \cup {key},
                    !.nowBytes = cc.nowBytes + Len(key) + ValueLen(value)]
\* the two branches of Cache.Add, before its loop
\* (kv is a pointer to the entry: kv.value = value writes the element itself)
AdmitNoLoop(cc, key, value) ==
    IF key \in cc.cache
    THEN LET ele == Element(cc, key)
         IN [cc EXCEPT !.ll = MoveToFront([cc.ll EXCEPT ![ele].value = value], ele),
                       !.nowBytes = cc.nowBytes + ValueLen(value)
                                               - ValueLen(cc.ll[ele].value)]
    ELSE [cc EXCEPT !.ll = <<[key |-> key, value |-> value]>> \o cc.ll,
                    !.cache = cc.cache \cup {key},
                    !.nowBytes = cc.nowBytes + Len(key) + ValueLen(value)]

\* (faulty variants of LruAdd: without the eviction loop; evicting without
\* invoking OnEvicted)
LruAddNoEvict(cc, key, value) == [ c |-> AdmitNoLoop(cc, key, value), calls |-> << >> ]
LruAddSilent(cc, key, value) ==
    [ c |-> EvictLoop(AdmitNoLoop(cc, key, value), << >>).c, calls |-> << >> ]
\* Cache.Add: [c, calls]
LruAdd(cc, key, value) == EvictLoop(AdmitNoLoop(cc, key, value), << >>)

\* Cache.Len
LruLen(cc) == Len(cc.ll)

--------------------------------------------------------------------------
(* The LRU engine driven by a single caller (the engine is not             *)
(* synchronised: its callers serialise the calls).                         *)

NoRet == [ value |-> ZeroView, ok |-> FALSE ]

\* s with key moved (or put) first: the order of promotions
Promote(s, key) == <<key>> \o SelectSeq(s, LAMBDA k : k # key)

\* s without the keys that are no longer resident
Resident(s, keys) == SelectSeq(s, LAMBDA k : k \in keys)

\* the entries of the engine as (key, value) pairs
Entries(cc) == Range(cc.ll)

\* what a call records about itself; hit: the key was resident when it was made
Op(op, key, value) ==
    [ op |-> op, key |-> key, value |-> value, hit |-> key \in Range(recency) ]

\* the entries of before that after no longer holds
Gone(before, after) == { e \in before : e.key \notin after.cache }

LruInit ==
    /\ c \in { New(mb, cb) : mb \in CeilingChoices, cb \in BOOLEAN }
    /\ lastOp = [ op |-> "New", key |-> << >>, value |-> ZeroView, hit |-> FALSE ]
    /\ lastRet = NoRet
    /\ lastCalls = << >>
    /\ lastGone = {}
    /\ nCallbacks = 0
    /\ nAdmitted = 0
    /\ recency = << >>

\* c.Add(key, value)
DoAdd(key, value) ==
    /\ key \notin Range(recency) => nAdmitted < MaxAdmits
    /\ LET r == LruAdd(c, key, value)
           entry == [ key |-> key, value |-> value ]
       IN /\ c' = r.c
          /\ lastCalls' = r.calls
          /\ lastGone' = Gone({ e \in Entries(c) : e.key # key } \cup {entry}, r.c)
          /\ nCallbacks' = nCallbacks + Len(r.calls)
          /\ recency' = Resident(Promote(recency, key), r.c.cache)
    /\ nAdmitted' = IF key \in Range(recency) THEN nAdmitted ELSE nAdmitted + 1
    /\ lastOp' = Op("Add", key, value)
    /\ lastRet' = NoRet
    /\ UNCHANGED <<ringVars, groupVars, poolVars, serverVars, addVars, fleetVars>>

\* c.Get(key)
DoGet(key) ==
    /\ LET r == LruGet(c, key)
       IN /\ c' = r.c
          /\ lastRet' = [ value |-> r.value, ok |-> r.ok ]
          /\ lastGone' = Gone(Entries(c), r.c)
    /\ recency' = IF key \in Range(recency) THEN Promote(recency, key) ELSE recency
    /\ lastOp' = Op("Get", key, ZeroView)
    /\ lastCalls' = << >>
    /\ UNCHANGED <<nCallbacks, nAdmitted, ringVars, groupVars, poolVars, serverVars, addVars, fleetVars>>

\* c.RemoveOldest()
DoRemoveOldest ==
    /\ LET r == RemoveOldest(c)
       IN /\ c' = r.c
          /\ lastCalls' = r.calls
          /\ lastGone' = Gone(Entries(c), r.c)
          /\ nCallbacks' = nCallbacks + Len(r.calls)
          /\ recency' = Resident(recency, r.c.cache)
    /\ lastOp' = Op("RemoveOldest", << >>, ZeroView)
    /\ lastRet' = NoRet
    /\ UNCHANGED <<nAdmitted, ringVars, groupVars, poolVars, serverVars, addVars, fleetVars>>

\* the other packages' state while the LRU engine is exercised alone
RingIdle ==
    /\ m = [ replicas |-> 0, keys |-> << >>, hashMap |-> << >> ]
    /\ registered = {}
    /\ seen = {}
    /\ ringOp = [ op |-> "New" ]
    /\ got = [ op |-> "none" ]
    /\ panicked = FALSE
    /\ addsOnly = TRUE

GroupIdle ==
    /\ mainCache = [ cacheBytes |-> 0 ]
    /\ peers = "nil"
    /\ src = << >>
    /\ loadedBytes = << >>
    /\ pc = << >>
    /\ call = << >>
    /\ attach = [ op |-> "none" ]

PoolIdle ==
    /\ pool = [ self |-> << >> ]
    /\ picked = [ op |-> "none" ]

ServerIdle ==
    /\ groups = << >>
    /\ response = [ op |-> "none" ]

AddIdle ==
    /\ addC = [ maxBytes |-> 0 ]
    /\ addPc = "none"

FleetIdle ==
    /\ nodes = << >>
    /\ chain = << >>
    /\ req = [ op |-> "none" ]

InitLRU ==
    LruInit /\ RingIdle /\ GroupIdle /\ PoolIdle /\ ServerIdle /\ AddIdle /\ FleetIdle

NextLRU ==
    \/ \E key \in LKeys, value \in Values : DoAdd(key, value)
    \/ \E key \in LKeys : DoGet(key)
    \/ DoRemoveOldest

SpecLRU == InitLRU /\ [][NextLRU]_vars

\* the keys of the list, front to back
ListKeys(cc) == [ i \in 1..Len(cc.ll) |-> cc.ll[i].key ]

\* the sum of the weights of the entries the list holds
ResidentBytes(cc) == SumSeq([ i \in 1..Len(cc.ll) |-> EntryBytes(cc.ll[i]) ])

\* C1: with max_bytes > 0, when Add or RemoveOldest has returned now_bytes is
\* at most max_bytes, and an Add of an entry that alone weighs more than
\* max_bytes leaves the engine empty (the entry was evicted at once).
C1_CeilingHolds ==
    (c.maxBytes > 0 /\ lastOp.op \in {"Add", "RemoveOldest"}) =>
        /\ c.nowBytes <= c.maxBytes
        /\ (lastOp.op = "Add" /\ Len(lastOp.key) + ValueLen(lastOp.value) > c.maxBytes)
              => (c.ll = << >> /\ c.cache = {} /\ c.nowBytes = 0)

\* an oversized entry was admitted to an engine that held others, and the
\* engine is empty
C1_Witness ==
    /\ c.maxBytes > 0
    /\ lastOp.op = "Add"
    /\ Len(lastOp.key) + ValueLen(lastOp.value) > c.maxBytes
    /\ Cardinality(lastGone) >= 2
    /\ c.ll = << >>

\* C2: after any sequence of Add (new key or replacement), Get and
\* RemoveOldest, now_bytes is the sum of len(key) + value.Len() over exactly
\* the resident entries: the list and the index hold the same keys, each once,
\* and now_bytes is 0 when the engine is empty.
C2_BytesAccounted ==
    /\ c.nowBytes = ResidentBytes(c)
    /\ Range(ListKeys(c)) = c.cache
    /\ Cardinality(c.cache) = Len(c.ll)
    /\ c.ll = << >> => c.nowBytes = 0

\* a replacement changed the length of a resident value after evictions
C2_Witness ==
    /\ lastOp.op = "Add" /\ lastOp.hit
    /\ nAdmitted > Len(c.ll)
    /\ Len(c.ll) >= 2
    /\ \E i \in 1..Len(c.ll) : ValueLen(c.ll[i].value) # ValueLen(lastOp.value)

\* the promotion order after the call that leads to the next state
PromotedOrder ==
    IF lastOp'.op = "Add" \/ (lastOp'.op = "Get" /\ lastOp'.hit)
    THEN Promote(recency, lastOp'.key)
    ELSE recency

\* one call: the keys it removed are the least recently promoted ones, and
\* the keys it kept are in promotion order
EvictsLeastRecent ==
    LET order == PromotedOrder
        gone == Range(order) \ c'.cache
        keep == Len(order) - Cardinality(gone)
    IN /\ gone = { order[i] : i \in (keep + 1)..Len(order) }
       /\ ListKeys(c') = SubSeq(order, 1, keep)
       /\ lastOp'.op = "Get" => gone = {}
       /\ lastOp'.op = "RemoveOldest" => Cardinality(gone) = IF order = << >> THEN 0 ELSE 1

\* C3: every entry removed by capacity pressure inside Add, and by
\* RemoveOldest, is the resident key least recently promoted (by its
\* insertion, by a replacing Add or by a Get hit), and a promotion keeps the
\* relative order of the other resident keys.
C3_LeastRecentlyPromoted == [][EvictsLeastRecent]_vars

\* an Add evicted a key while a key promoted since stays resident behind the
\* new one
C3_Witness ==
    /\ lastOp.op = "Add" /\ ~lastOp.hit
    /\ Cardinality(lastGone) = 1
    /\ Len(c.ll) >= 2
    /\ nAdmitted >= 3

\* C4: with a callback installed, the callback has been invoked once per
\* entry removed from the engine (admitted entries no longer resident), the
\* invocations of a call carry exactly the entries that call removed, with
\* their current values; a replacement in place and a RemoveOldest on an
\* empty engine invoke nothing.
C4_CallbackPerRemoval ==
    c.OnEvicted =>
        /\ nCallbacks = nAdmitted - Len(c.ll)
        /\ Range(lastCalls) = lastGone
        /\ Len(lastCalls) = Cardinality(lastGone)
        /\ (lastOp.op = "Add" /\ lastOp.hit /\ lastOp.key \in c.cache)
              => \A i \in 1..Len(lastCalls) : lastCalls[i].key # lastOp.key

\* after earlier evictions, a replacement whose larger value evicted another
\* entry: one invocation, for the evicted entry and not for the old value
C4_Witness ==
    /\ c.OnEvicted
    /\ lastOp.op = "Add" /\ lastOp.hit /\ lastOp.key \in c.cache
    /\ Len(lastCalls) = 1
    /\ nCallbacks >= 2

--------------------------------------------------------------------------
(* package consistenthash                                                  *)

\* strconv.Itoa(i) for i >= 0, as the digits of i
RECURSIVE Itoa(_)
Itoa(i) == IF i < 10 THEN <<i>> ELSE Itoa(i \div 10) \o <<i % 10>>

\* the hash the Map is built with (New's fn): the decimal reading of the
\* bytes.  Every name of the model reads far below 2^32, so the uint32 result
\* and its conversion to int are the number itself.
RECURSIVE Decimal(_)
Decimal(data) ==
    IF data = << >> THEN 0
    ELSE Decimal(SubSeq(data, 1, Len(data) - 1)) * 10 + data[Len(data)]

HashFn(data) == Decimal(data)

\* consistenthash.New(replicas, fn)
MapNew(replicas) == [ replicas |-> replicas, keys |-> << >>, hashMap |-> << >> ]

\* int(m.hash([]byte(strconv.Itoa(i) + key)))
VirtualHash(i, key) == HashFn(Itoa(i) \o key)

\* m.hashMap[hash] = key
Bind(hashMap, hash, key) ==
    [ h \in DOMAIN hashMap \cup {hash} |-> IF h = hash THEN key ELSE hashMap[h] ]

\* delete(m.hashMap, hash)
Unbind(hashMap, hash) == [ h \in DOMAIN hashMap \ {hash} |-> hashMap[h] ]

\* m.hashMap[hash] read: the zero value "" for a hash that is not bound
Owner(hashMap, hash) == IF hash \in DOMAIN hashMap THEN hashMap[hash] ELSE << >>

\* sort.Ints(s): s in ascending order
SortInts(s) == SortSeq(s, LAMBDA a, b : a < b)

\* sort.Search(n, f) with f(i) = (s[i] >= x): the binary search, on 0-based
\* indices i, j; s[h] of the code is s[h + 1] here
RECURSIVE SearchFrom(_, _, _, _)
SearchFrom(s, x, i, j) ==
    IF i < j
    THEN LET h == (i + j) \div 2
         IN IF ~(s[h + 1] >= x) THEN SearchFrom(s, x, h + 1, j)
                                ELSE SearchFrom(s, x, i, h)
    ELSE i

\* sort.SearchInts(s, x), 0-based
SearchInts(s, x) == SearchFrom(s, x, 0, Len(s))

\* the inner loop of Map.Add for one key, from replica i on
RECURSIVE AddReplicas(_, _, _)
AddReplicas(mm, key, i) ==
    IF i < mm.replicas
    THEN LET hash == VirtualHash(i, key)
         IN AddReplicas([mm EXCEPT !.keys = Append(mm.keys, hash),
                                   !.hashMap = Bind(mm.hashMap, hash, key)],
                        key, i + 1)
    ELSE mm

\* the outer loop of Map.Add
RECURSIVE AddKeys(_, _)
AddKeys(mm, keys) ==
    IF keys = << >> THEN mm
    ELSE AddKeys(AddReplicas(mm, Head(keys), 0), Tail(keys))

\* Map.Add(keys...)
MapAdd(mm, keys) ==
    LET added == AddKeys(mm, keys)
    IN [added EXCEPT !.keys = SortInts(added.keys)]

\* (faulty variant of MapRemove's loop: the binding is not deleted)
RECURSIVE RemoveReplicasKeepBinding(_, _, _)
RemoveReplicasKeepBinding(mm, key, i) ==
    IF i < mm.replicas
    THEN LET hash == VirtualHash(i, key)
             idx == SearchInts(mm.keys, hash)
         IN IF idx + 1 > Len(mm.keys)
            THEN [ m |-> mm, panicked |-> TRUE ]
            ELSE RemoveReplicasKeepBinding(
                     [mm EXCEPT !.keys = SubSeq(mm.keys, 1, idx)
                                           \o SubSeq(mm.keys, idx + 2, Len(mm.keys))],
                     key, i + 1)
    ELSE [ m |-> mm, panicked |-> FALSE ]

\* the loop of Map.Remove from replica i on: [m, panicked].  m.keys[idx+1:]
\* panics (slice bounds out of range) when idx = len(m.keys), and the Map
\* stays as the replicas before i left it
RECURSIVE RemoveReplicas(_, _, _)
RemoveReplicas(mm, key, i) ==
    IF i < mm.replicas
    THEN LET hash == VirtualHash(i, key)
             idx == SearchInts(mm.keys, hash)
         IN IF idx + 1 > Len(mm.keys)
            THEN [ m |-> mm, panicked |-> TRUE ]
            ELSE RemoveReplicas(
                     [mm EXCEPT !.keys = SubSeq(mm.keys, 1, idx)
                                           \o SubSeq(mm.keys, idx + 2, Len(mm.keys)),
                                !.hashMap = Unbind(mm.hashMap, hash)],
                     key, i + 1)
    ELSE [ m |-> mm, panicked |-> FALSE ]

\* Map.Remove(key): [m, panicked]
MapRemove(mm, key) == RemoveReplicas(mm, key, 0)

\* (faulty variant of MapGet: past the last hash it stays on the last hash)
MapGetNoWrap(mm, key) ==
    IF Len(mm.keys) = 0 THEN << >>
    ELSE LET hash == HashFn(key)
             idx == SearchInts(mm.keys, hash)
         IN Owner(mm.hashMap,
                  mm.keys[IF idx = Len(mm.keys) THEN Len(mm.keys) ELSE idx + 1])

\* Map.Get(key)
MapGet(mm, key) ==
    IF Len(mm.keys) = 0 THEN << >>
    ELSE LET hash == HashFn(key)
             idx == SearchInts(mm.keys, hash)
         IN Owner(mm.hashMap, mm.keys[(idx % Len(mm.keys)) + 1])

--------------------------------------------------------------------------
(* The ring driven by Add, Remove and Get calls.                           *)

\* peer names; "2" and "02" collide on the ring ("0"+"2" and "0"+"02" both
\* read 2), "4" collides with neither
RPeers == { <<2>>, <<4>>, <<0, 2>> }

\* the keys looked up: before the first hash, between hashes, past the last
RKeys == { <<1>>, <<3>>, <<1, 3>>, <<9, 9, 9>> }

ReplicaChoices == {1, 2}

\* the argument lists of Add: one peer, or two different peers
AddLists == { <<p>> : p \in RPeers } \cup
            { pq \in RPeers \X RPeers : pq[1] # pq[2] }

NoGet == [ op |-> "none", key |-> << >>, peer |-> << >> ]

\* the hashes of the virtual nodes of peer p on a ring with r replicas
VirtualHashes(p, r) == { VirtualHash(i, p) : i \in 0..(r - 1) }

RingInit ==
    /\ m \in { MapNew(r) : r \in ReplicaChoices }
    /\ registered = {}
    /\ seen = {}
    /\ ringOp = [ op |-> "New", peer |-> << >>, before |-> MapNew(0) ]
    /\ got = NoGet
    /\ panicked = FALSE
    /\ addsOnly = TRUE

LruIdle ==
    /\ c = New(0, FALSE)
    /\ lastOp = [ op |-> "New", key |-> << >>, value |-> ZeroView, hit |-> FALSE ]
    /\ lastRet = NoRet
    /\ lastCalls = << >>
    /\ lastGone = {}
    /\ nCallbacks = 0
    /\ nAdmitted = 0
    /\ recency = << >>

\* m.Add(keys...)
RingAdd(keys) ==
    /\ ~panicked
    /\ Len(m.keys) + m.replicas * Len(keys) <= MaxRing
    /\ m' = MapAdd(m, keys)
    /\ registered' = registered \cup Range(keys)
    /\ seen' = seen \cup Range(keys)
    /\ ringOp' = IF Len(keys) = 1
                 THEN [ op |-> "Add", peer |-> keys[1], before |-> m ]
                 ELSE [ op |-> "Adds", peer |-> << >>, before |-> MapNew(0) ]
    /\ got' = NoGet
    /\ UNCHANGED <<panicked, addsOnly, lruVars, groupVars, poolVars, serverVars, addVars, fleetVars>>

\* m.Remove(key); a Remove(p) that follows Add(p) keeps the Map as it was
\* before that Add
RingRemove(key) ==
    /\ ~panicked
    /\ LET r == MapRemove(m, key)
       IN /\ m' = r.m
          /\ panicked' = r.panicked
    /\ registered' = registered \ {key}
    /\ seen' = seen \cup {key}
    /\ ringOp' = IF ringOp.op = "Add" /\ ringOp.peer = key
                 THEN [ op |-> "AddRemove", peer |-> key, before |-> ringOp.before ]
                 ELSE [ op |-> "Remove", peer |-> key, before |-> MapNew(0) ]
    /\ got' = NoGet
    /\ addsOnly' = FALSE
    /\ UNCHANGED <<lruVars, groupVars, poolVars, serverVars, addVars, fleetVars>>

\* m.Get(key)
RingGet(key) ==
    /\ ~panicked
    /\ got' = [ op |-> "Get", key |-> key, peer |-> MapGet(m, key) ]
    /\ UNCHANGED <<m, registered, seen, ringOp, panicked, addsOnly, lruVars, groupVars, poolVars, serverVars, addVars, fleetVars>>

InitRing ==
    RingInit /\ LruIdle /\ GroupIdle /\ PoolIdle /\ ServerIdle /\ AddIdle /\ FleetIdle

NextRing ==
    \/ \E keys \in AddLists : RingAdd(keys)
    \/ \E key \in RPeers : RingRemove(key)
    \/ \E key \in RKeys : RingGet(key)

SpecRing == InitRing /\ [][NextRing]_vars

\* s is in ascending order
Ascending(s) == \A i \in 1..(Len(s) - 1) : s[i] <= s[i + 1]

\* no virtual node of one peer of S has the hash of a virtual node of another
NoCollisions(S, r) ==
    \A p \in S, q \in S : p # q => VirtualHashes(p, r) \cap VirtualHashes(q, r) = {}

\* the number of ring entries whose owner_of_hash value is p
OwnedBy(mm, p) ==
    Cardinality({ i \in 1..Len(mm.keys) : Owner(mm.hashMap, mm.keys[i]) = p })

\* C8: after any sequence of Add and Remove calls (that returned), absent hash
\* collisions between distinct peers, the ring holds exactly `replicas`
\* entries owned by each registered peer, |ring| = replicas x |registered|,
\* and the ring is ascending.
C8_ReplicasPerPeer ==
    (~panicked /\ NoCollisions(seen, m.replicas)) =>
        /\ \A p \in registered : OwnedBy(m, p) = m.replicas
        /\ Len(m.keys) = m.replicas * Cardinality(registered)
        /\ Ascending(m.keys)

\* C9: Map.Get returns "" on an empty ring and, on a non-empty ring, a peer
\* of the registered set: not "" and not a removed peer.  Stated for the
\* rings the spec keeps in scope, without collisions between distinct peers.
C9_GetRegisteredPeer ==
    (got.op = "Get" /\ NoCollisions(seen, m.replicas)) =>
        IF m.keys = << >>
        THEN got.peer = << >>
        ELSE got.peer # << >> /\ got.peer \in registered

\* the ring holds the same hashes as before and owner_of_hash is what it was
Restored(mm, before) ==
    /\ Range(mm.keys) = Range(before.keys)
    /\ mm.hashMap = before.hashMap

\* none of p's virtual-node hashes is on the ring or bound in owner_of_hash
FreshPeer(mm, p) ==
    VirtualHashes(p, mm.replicas) \cap (Range(mm.keys) \cup DOMAIN mm.hashMap) = {}

\* C10 as claimed: for any ring state and any peer p, Add(p) followed by
\* Remove(p) restores the ring's hashes and owner_of_hash.
C10_AddRemoveRestores ==
    ringOp.op = "AddRemove" => Restored(m, ringOp.before)

\* C10, amended: for any ring state and any peer p none of whose virtual-node
\* hashes is already on the ring or bound in owner_of_hash, Add(p) followed
\* by Remove(p) returns and restores the ring's hashes and owner_of_hash.
C10_FreshAddRemoveRestores ==
    (ringOp.op = "AddRemove" /\ FreshPeer(ringOp.before, ringOp.peer)) =>
        ~panicked /\ Restored(m, ringOp.before)

\* a fresh peer was added to a ring that held another peer, and removed
C10_Witness ==
    /\ ringOp.op = "AddRemove"
    /\ FreshPeer(ringOp.before, ringOp.peer)
    /\ ringOp.before.keys # << >>
    /\ m.keys # << >>

--------------------------------------------------------------------------
(* package geecache: the cache shell, the Group and Group.Get              *)

Threads == {1, 2}

\* the keys callers ask for; "" is the key Group.Get rejects
GKeys == { <<1>>, <<2>> }
NoKey == << >>

\* what the loader's buffer for a key may hold: a short and a long content
SrcValues == { <<7>>, [ i \in 1..MaxValLen |-> 8 ] }

\* the bodies a peer's client returns
PeerBodies == { <<9>>, <<9, 9>> }

\* the cacheBytes NewGroup is called with: unbounded, too small for a long
\* value, room for two short entries
GroupCeilings == {0, 2, 4}

\* Group.peers: nil, or one of two pickers
\* the errors a loader returns
LoaderErrors == { "not found", "unavailable" }

NoPicker == "nil"
Pickers == { "pickerA", "pickerB" }

\* c.lru == nil
NoLru == [ maxBytes |-> 0, nowBytes |-> 0, ll |-> << >>, cache |-> {},
           OnEvicted |-> FALSE, nil |-> TRUE ]

\* the engine the shell builds: lru.New(c.cacheBytes, nil)
ShellLru(cacheBytes) ==
    [ maxBytes |-> cacheBytes, nowBytes |-> 0, ll |-> << >>, cache |-> {},
      OnEvicted |-> FALSE, nil |-> FALSE ]

\* cache{cacheBytes: cacheBytes}; mu is 0 when the lock is free, else the
\* thread that holds it
NewShell(cacheBytes) == [ cacheBytes |-> cacheBytes, lru |-> NoLru, mu |-> 0 ]

\* cache.get, inside the lock: [lru, value, ok]
ShellGet(mc, key) ==
    IF mc.lru.nil
    THEN [ lru |-> mc.lru, value |-> ZeroView, ok |-> FALSE ]
    ELSE LET r == LruGet(mc.lru, key)
         IN [ lru |-> r.c, value |-> r.value, ok |-> r.ok ]

\* cache.add, inside the lock: the engine afterwards
ShellAdd(mc, key, value) ==
    LET engine == IF mc.lru.nil THEN ShellLru(mc.cacheBytes) ELSE mc.lru
    IN LruAdd(engine, key, value).c

\* the keys resident in the shell's engine
ShellKeys(mc) == mc.lru.cache

\* what thread t records about the Get it makes
NewCall(t, key) ==
    [ key         |-> key,
      resident    |-> key \in ShellKeys(mainCache),  \* when the Get began
      before      |-> mainCache.lru,                 \* the engine when it began
      after       |-> IF call[t].done /\ call[t].remote = "ok"
                      THEN call[t].key ELSE NoKey,   \* the key t's Get before
                                                     \* this one got from a peer
      hit         |-> FALSE,      \* mainCache.get returned ok
      picks       |-> 0,          \* PickPeer calls
      remote      |-> "none",     \* the peer client's answer: none, ok, err
      body        |-> << >>,      \* the body it returned
      loaderCalls |-> 0,          \* getter.Get calls
      loaded      |-> << >>,      \* the bytes the loader returned
      loaderErr   |-> "",         \* the error the loader returned
      admitted    |-> FALSE,      \* populateCache was called
      value       |-> ZeroView,   \* the view returned
      err         |-> "",         \* the error returned
      done        |-> FALSE ]

NoCall ==
    [ key |-> NoKey, resident |-> FALSE, before |-> NoLru, after |-> NoKey,
      hit |-> FALSE, picks |-> 0, remote |-> "none", body |-> << >>,
      loaderCalls |-> 0, loaded |-> << >>, loaderErr |-> "", admitted |-> FALSE,
      value |-> ZeroView, err |-> "", done |-> FALSE ]

\* httpClient.Get as the environment decides it: the transport fails, the
\* status is not 200, reading the body fails, or the body is returned
PeerOutcomes == { "ok", "transport", "status", "body" }

ClientGet(outcome, body) ==
    IF outcome = "transport" THEN [ bytes |-> Owned(<< >>), err |-> "transport" ]
    ELSE IF outcome = "status" THEN [ bytes |-> Owned(<< >>), err |-> "server returned" ]
    ELSE IF outcome = "body" THEN [ bytes |-> Owned(<< >>), err |-> "reading response body" ]
    ELSE [ bytes |-> Owned(body), err |-> "" ]

\* (faulty variant of LocalView: the loader's buffer is kept, not copied)
LocalViewNoCopy(bytes) == ByteView(bytes)
\* the view getLocally builds from the loader's bytes
LocalView(bytes) == ByteView(CloneBytes(bytes))

\* the view getFromPeer builds from the peer's bytes
PeerView(bytes) == ByteView(bytes)

NoAttach == [ op |-> "none", picker |-> NoPicker, before |-> NoPicker,
              panicked |-> FALSE ]

GroupInit ==
    /\ mainCache \in { NewShell(cb) : cb \in GroupCeilings }
    /\ peers = NoPicker
    /\ src \in [ GKeys -> SrcValues ]
    /\ loadedBytes = [ k \in GKeys |-> << >> ]
    /\ call = [ t \in Threads |-> NoCall ]
    /\ attach = NoAttach

\* (faulty variant of GroupRegisterPeers: a later call replaces the picker)
GroupRegisterPeersReplace(picker) ==
    /\ peers' = picker
    /\ attach' = [ op |-> "RegisterPeers", picker |-> picker, before |-> peers,
                   panicked |-> FALSE ]
    /\ UNCHANGED <<mainCache, src, loadedBytes, pc, call, lruVars, ringVars, poolVars, serverVars, addVars, fleetVars>>

\* g.RegisterPeers(picker): panics when g.peers is not nil, and assigns
\* g.peers otherwise
GroupRegisterPeers(picker) ==
    /\ peers' = IF peers # NoPicker THEN peers ELSE picker
    /\ attach' = [ op |-> "RegisterPeers", picker |-> picker, before |-> peers,
                   panicked |-> peers # NoPicker ]
    /\ UNCHANGED <<mainCache, src, loadedBytes, pc, call, lruVars, ringVars, poolVars, serverVars, addVars, fleetVars>>

\* the owner of the loader's buffer overwrites it
MutateSource(key, data) ==
    /\ src[key] # data
    /\ src' = [src EXCEPT ![key] = data]
    /\ UNCHANGED <<attach, mainCache, peers, loadedBytes, pc, call, lruVars, ringVars, poolVars, serverVars, addVars, fleetVars>>

\* (faulty variant of GroupGet: the empty key is answered without an error)
GroupGetEmptyOk(t, key) ==
    /\ pc[t] = "idle"
    /\ IF key = NoKey
       THEN /\ pc' = pc
            /\ call' = [call EXCEPT ![t] = [NewCall(t, key) EXCEPT !.done = TRUE]]
       ELSE /\ pc' = [pc EXCEPT ![t] = "get"]
            /\ call' = [call EXCEPT ![t] = NewCall(t, key)]
    /\ UNCHANGED <<attach, mainCache, peers, src, loadedBytes, lruVars, ringVars, poolVars, serverVars, addVars, fleetVars>>

\* Group.Get(key), up to the call of mainCache.get
GroupGet(t, key) ==
    /\ pc[t] = "idle"
    /\ IF key = NoKey
       THEN /\ pc' = pc
            /\ call' = [call EXCEPT ![t] = [NewCall(t, key) EXCEPT
                           !.err = "key is required", !.done = TRUE]]
       ELSE /\ pc' = [pc EXCEPT ![t] = "get"]
            /\ call' = [call EXCEPT ![t] = NewCall(t, key)]
    /\ UNCHANGED <<attach, mainCache, peers, src, loadedBytes, lruVars, ringVars, poolVars, serverVars, addVars, fleetVars>>

\* cache.get: c.mu.Lock()
CacheGetLock(t) ==
    /\ pc[t] = "get"
    /\ mainCache.mu = 0
    /\ mainCache' = [mainCache EXCEPT !.mu = t]
    /\ pc' = [pc EXCEPT ![t] = "get.locked"]
    /\ UNCHANGED <<attach, peers, src, loadedBytes, call, lruVars, ringVars, poolVars, serverVars, addVars, fleetVars>>

\* cache.get: the lookup and the deferred c.mu.Unlock(); Group.Get returns
\* on a hit and calls load on a miss
CacheGetBody(t) ==
    /\ pc[t] = "get.locked"
    /\ LET r == ShellGet(mainCache, call[t].key)
       IN /\ mainCache' = [mainCache EXCEPT !.lru = r.lru, !.mu = 0]
          /\ IF r.ok
             THEN /\ pc' = [pc EXCEPT ![t] = "idle"]
                  /\ call' = [call EXCEPT ![t].hit = TRUE, ![t].value = r.value,
                                          ![t].done = TRUE]
             ELSE /\ pc' = [pc EXCEPT ![t] = "load"]
                  /\ call' = call
    /\ UNCHANGED <<attach, peers, src, loadedBytes, lruVars, ringVars, poolVars, serverVars, addVars, fleetVars>>

\* Group.load: without a picker it goes to getLocally; a picker is asked
\* PickPeer(key) and answers ok (a remote peer) or not
GroupLoad(t) ==
    /\ pc[t] = "load"
    /\ IF peers = NoPicker
       THEN /\ pc' = [pc EXCEPT ![t] = "getLocally"]
            /\ call' = call
       ELSE \E ok \in BOOLEAN :
            /\ pc' = [pc EXCEPT ![t] = IF ok THEN "getFromPeer" ELSE "getLocally"]
            /\ call' = [call EXCEPT ![t].picks = @ + 1]
    /\ UNCHANGED <<attach, mainCache, peers, src, loadedBytes, lruVars, ringVars, poolVars, serverVars, addVars, fleetVars>>

\* (faulty variant of GroupGetFromPeer: the peer's error is returned)
GroupGetFromPeerNoFallback(t) ==
    /\ pc[t] = "getFromPeer"
    /\ \E outcome \in PeerOutcomes, body \in PeerBodies :
         LET r == ClientGet(outcome, body)
         IN IF r.err = ""
            THEN /\ pc' = [pc EXCEPT ![t] = "idle"]
                 /\ call' = [call EXCEPT ![t].remote = "ok", ![t].body = body,
                                         ![t].value = PeerView(r.bytes),
                                         ![t].done = TRUE]
            ELSE /\ pc' = [pc EXCEPT ![t] = "idle"]
                 /\ call' = [call EXCEPT ![t].remote = "err", ![t].err = "peer",
                                         ![t].done = TRUE]
    /\ UNCHANGED <<attach, mainCache, peers, src, loadedBytes, lruVars, ringVars, poolVars, serverVars, addVars, fleetVars>>

\* (faulty variant of GroupGetFromPeer: the peer's bytes are admitted locally)
GroupGetFromPeerCaching(t) ==
    /\ pc[t] = "getFromPeer"
    /\ \E outcome \in PeerOutcomes, body \in PeerBodies :
         LET r == ClientGet(outcome, body)
         IN IF r.err = ""
            THEN /\ pc' = [pc EXCEPT ![t] = "idle"]
                 /\ call' = [call EXCEPT ![t].remote = "ok", ![t].body = body,
                                         ![t].value = PeerView(r.bytes),
                                         ![t].done = TRUE]
                 /\ mainCache' = [mainCache EXCEPT !.lru =
                        ShellAdd(mainCache, call[t].key, PeerView(r.bytes))]
            ELSE /\ pc' = [pc EXCEPT ![t] = "getLocally"]
                 /\ call' = [call EXCEPT ![t].remote = "err"]
                 /\ mainCache' = mainCache
    /\ UNCHANGED <<attach, peers, src, loadedBytes, lruVars, ringVars, poolVars, serverVars, addVars, fleetVars>>

\* Group.getFromPeer and what load does with its answer: the client returns
\* a body (in a buffer of its own) or an error; load returns the view of the
\* body, or logs the error and goes on to getLocally
GroupGetFromPeer(t) ==
    /\ pc[t] = "getFromPeer"
    /\ \E outcome \in PeerOutcomes, body \in PeerBodies :
         LET r == ClientGet(outcome, body)
         IN IF r.err = ""
            THEN /\ pc' = [pc EXCEPT ![t] = "idle"]
                 /\ call' = [call EXCEPT ![t].remote = "ok", ![t].body = body,
                                         ![t].value = PeerView(r.bytes),
                                         ![t].done = TRUE]
            ELSE /\ pc' = [pc EXCEPT ![t] = "getLocally"]
                 /\ call' = [call EXCEPT ![t].remote = "err"]
    /\ UNCHANGED <<attach, mainCache, peers, src, loadedBytes, lruVars, ringVars, poolVars, serverVars, addVars, fleetVars>>

\* (faulty variant of GroupGetLocally: the loader's error is wrapped)
GroupGetLocallyWrapped(t) ==
    /\ pc[t] = "getLocally"
    /\ \E e \in LoaderErrors \cup {""} :
         IF e = ""
         THEN /\ pc' = [pc EXCEPT ![t] = "add"]
              /\ call' = [call EXCEPT ![t].loaderCalls = @ + 1,
                                      ![t].loaded = src[call[t].key],
                                      ![t].value = LocalView(LoaderBuffer(call[t].key))]
         ELSE /\ pc' = [pc EXCEPT ![t] = "idle"]
              /\ call' = [call EXCEPT ![t].loaderCalls = @ + 1,
                                      ![t].loaderErr = e,
                                      ![t].err = "load failed", ![t].done = TRUE]
    /\ UNCHANGED <<attach, mainCache, peers, src, loadedBytes, lruVars, ringVars, poolVars, serverVars, addVars, fleetVars>>

\* Group.getLocally up to populateCache: the loader fails, and its error is
\* returned, or hands out its buffer for the key, of which a view is built
GroupGetLocally(t) ==
    /\ pc[t] = "getLocally"
    /\ \E e \in LoaderErrors \cup {""} :
         IF e = ""
         THEN /\ pc' = [pc EXCEPT ![t] = "add"]
              /\ call' = [call EXCEPT ![t].loaderCalls = @ + 1,
                                      ![t].loaded = src[call[t].key],
                                      ![t].value = LocalView(LoaderBuffer(call[t].key))]
         ELSE /\ pc' = [pc EXCEPT ![t] = "idle"]
              /\ call' = [call EXCEPT ![t].loaderCalls = @ + 1,
                                      ![t].loaderErr = e,
                                      ![t].err = e, ![t].done = TRUE]
    /\ UNCHANGED <<attach, mainCache, peers, src, loadedBytes, lruVars, ringVars, poolVars, serverVars, addVars, fleetVars>>

\* (faulty variant of CacheAddLock: the lock is taken without waiting for it)
CacheAddLockNoWait(t) ==
    /\ pc[t] = "add"
    /\ mainCache' = [mainCache EXCEPT !.mu = t]
    /\ pc' = [pc EXCEPT ![t] = "add.locked"]
    /\ UNCHANGED <<attach, peers, src, loadedBytes, call, lruVars, ringVars, poolVars, serverVars, addVars, fleetVars>>

\* populateCache, cache.add: c.mu.Lock()
CacheAddLock(t) ==
    /\ pc[t] = "add"
    /\ mainCache.mu = 0
    /\ mainCache' = [mainCache EXCEPT !.mu = t]
    /\ pc' = [pc EXCEPT ![t] = "add.locked"]
    /\ UNCHANGED <<attach, peers, src, loadedBytes, call, lruVars, ringVars, poolVars, serverVars, addVars, fleetVars>>

\* cache.add: the admission and the deferred c.mu.Unlock(); getLocally
\* returns the view
CacheAddBody(t) ==
    /\ pc[t] = "add.locked"
    /\ mainCache' = [mainCache EXCEPT
                        !.lru = ShellAdd(mainCache, call[t].key, call[t].value),
                        !.mu = 0]
    /\ loadedBytes' = [loadedBytes EXCEPT ![call[t].key] = call[t].loaded]
    /\ pc' = [pc EXCEPT ![t] = "idle"]
    /\ call' = [call EXCEPT ![t].admitted = TRUE, ![t].done = TRUE]
    /\ UNCHANGED <<attach, peers, src, lruVars, ringVars, poolVars, serverVars, addVars, fleetVars>>

\* one caller: thread 1 makes the Gets, thread 2 never starts
InitGroup ==
    /\ GroupInit
    /\ pc = [ t \in Threads |-> IF t = 1 THEN "idle" ELSE "off" ]
    /\ LruIdle
    /\ RingIdle
    /\ PoolIdle
    /\ ServerIdle
    /\ AddIdle
    /\ FleetIdle

NextGroup ==
    \/ \E picker \in Pickers \cup {NoPicker} : GroupRegisterPeers(picker)
    \/ \E key \in GKeys, data \in SrcValues : MutateSource(key, data)
    \/ \E t \in Threads, key \in GKeys \cup {NoKey} : GroupGet(t, key)
    \/ \E t \in Threads : CacheGetLock(t)
    \/ \E t \in Threads : CacheGetBody(t)
    \/ \E t \in Threads : GroupLoad(t)
    \/ \E t \in Threads : GroupGetFromPeer(t)
    \/ \E t \in Threads : GroupGetLocally(t)
    \/ \E t \in Threads : CacheAddLock(t)
    \/ \E t \in Threads : CacheAddBody(t)

SpecGroup == InitGroup /\ [][NextGroup]_vars

\* the view the engine holds for a resident key
CachedView(mc, key) == mc.lru.ll[Element(mc.lru, key)].value

\* the entry (key, bytes) alone outweighs the shell's ceiling
Oversized(mc, key, bytes) ==
    mc.cacheBytes > 0 /\ Len(key) + Len(bytes) > mc.cacheBytes

\* the call loaded bytes locally, returned them and admitted a copy of them:
\* the cache holds them under the key in a buffer of its own, unless the
\* entry alone outweighs the ceiling and was evicted at once
LoadedAndAdmitted(cl) ==
    /\ cl.err = ""
    /\ cl.value.b.own /\ SliceBytes(cl.value.b) = cl.loaded
    /\ cl.admitted
    /\ IF Oversized(mainCache, cl.key, cl.loaded)
       THEN cl.key \notin ShellKeys(mainCache)
       ELSE /\ cl.key \in ShellKeys(mainCache)
            /\ CachedView(mainCache, cl.key).b.own
            /\ SliceBytes(CachedView(mainCache, cl.key).b) = cl.loaded

\* C5: with no peer picker installed, a Get(k) for a non-empty k that is not
\* resident calls the loader exactly once and, when the loader succeeds,
\* admits a copy of its bytes; a Get(k) for a resident k returns from the
\* cache the bytes that were loaded for it, and does not call the loader.
C5_LoaderOncePerResidency ==
    \A t \in Threads :
        LET cl == call[t]
        IN (cl.done /\ cl.key # NoKey /\ peers = NoPicker) =>
            /\ ~cl.resident =>
                 /\ ~cl.hit /\ cl.loaderCalls = 1
                 /\ cl.err = "" => LoadedAndAdmitted(cl)
            /\ cl.resident =>
                 /\ cl.hit /\ cl.loaderCalls = 0 /\ cl.err = ""
                 /\ SliceBytes(cl.value.b) = loadedBytes[cl.key]

\* a Get was answered from the cache after the loader's buffer had been
\* overwritten
C5_Witness ==
    /\ peers = NoPicker
    /\ call[1].done /\ call[1].hit
    /\ loadedBytes[call[1].key] # src[call[1].key]

\* C6: when Get(k) misses, the picker selects a remote peer and its client
\* returns bytes, the loader is not called, the view returned holds the
\* client's body and the local cache is as it was (k is not admitted); the
\* Get(k) that follows misses again and asks the picker again.
C6_RemoteNotCached ==
    \A t \in Threads :
        LET cl == call[t]
        IN /\ (cl.done /\ cl.remote = "ok") =>
                /\ cl.loaderCalls = 0 /\ cl.err = ""
                /\ SliceBytes(cl.value.b) = cl.body
                /\ ~cl.admitted
                /\ mainCache.lru = cl.before
                /\ cl.key \notin ShellKeys(mainCache)
           /\ (cl.done /\ cl.key # NoKey /\ cl.after = cl.key) =>
                ~cl.hit /\ cl.picks = 1

\* two Gets of one key in a row, both answered by a remote peer, beside a
\* cache that holds another key
C6_Witness ==
    /\ call[1].done /\ call[1].remote = "ok"
    /\ call[1].after = call[1].key
    /\ ShellKeys(mainCache) # {}

\* C7: when Get(k) misses, the picker selects a remote peer and its client
\* fails, the peer's error is not returned: the loader is called exactly
\* once and, when it succeeds, its bytes are returned and admitted under k.
C7_PeerFailureFallsBack ==
    \A t \in Threads :
        LET cl == call[t]
        IN (cl.done /\ cl.remote = "err") =>
            /\ cl.loaderCalls = 1
            /\ cl.err # "peer"
            /\ cl.err = "" => LoadedAndAdmitted(cl)

\* after a failed remote fetch the loader's bytes were returned and are
\* resident
C7_Witness ==
    /\ call[1].done /\ call[1].remote = "err" /\ call[1].err = ""
    /\ call[1].admitted
    /\ call[1].key \in ShellKeys(mainCache)

--------------------------------------------------------------------------
(* HTTPPool: the peer picker over the ring.                                *)

\* "/_geecache/", byte by byte
defaultBasePath == <<47, 95, 103, 101, 101, 99, 97, 99, 104, 101, 47>>

defaultReplicas == 50

\* a nil *consistenthash.Map, and a Map behind a pointer
NilMap == [ nil |-> TRUE, map |-> MapNew(0) ]
MapPtr(mm) == [ nil |-> FALSE, map |-> mm ]

\* a nil PeerClient, and NewHttpClient(baseURL)
NilClient == [ nil |-> TRUE, baseURL |-> << >> ]
NewHttpClient(baseURL) == [ nil |-> FALSE, baseURL |-> baseURL ]

\* NewHTTPPool(self): peers and httpClient are left nil
NewHTTPPool(self) ==
    [ self |-> self, basePath |-> defaultBasePath, peers |-> NilMap,
      httpClient |-> << >> ]

\* HTTPPool.Set(peers...): a new ring of defaultReplicas virtual nodes per
\* peer and a new client map.  The Map is built with the ring's hash of this
\* model in the place of crc32.ChecksumIEEE
PoolSet(p, peerList) ==
    [p EXCEPT !.peers = MapPtr(MapAdd(MapNew(defaultReplicas), peerList)),
              !.httpClient = [ peer \in Range(peerList) |->
                                 NewHttpClient(peer \o p.basePath) ]]

\* p.httpClient[hostName]: the zero value (nil) for a name that is not a key
ClientOf(p, hostName) ==
    IF hostName \in DOMAIN p.httpClient THEN p.httpClient[hostName] ELSE NilClient

\* HTTPPool.PickPeer(key): [client, ok, panicked].  p.peers.Get on a nil Map
\* reads m.keys through the nil pointer and panics
PickPeer(p, key) ==
    IF p.peers.nil
    THEN [ client |-> NilClient, ok |-> FALSE, panicked |-> TRUE ]
    ELSE LET hostName == MapGet(p.peers.map, key)
         IN IF hostName # << >> /\ hostName # p.self
            THEN [ client |-> ClientOf(p, hostName), ok |-> TRUE, panicked |-> FALSE ]
            ELSE [ client |-> NilClient, ok |-> FALSE, panicked |-> FALSE ]

\* the names a pool is given: its own and its peers'
PoolPeers == RPeers

\* the peer lists Set is called with: up to two names
PeerLists == { << >> } \cup { <<x>> : x \in PoolPeers } \cup (PoolPeers \X PoolPeers)

\* the keys looked up: around the first hashes, between them, past the last
PoolKeys == RKeys \cup { <<9, 9, 9, 9>> }

NoPick == [ op |-> "none", key |-> << >>, client |-> NilClient, ok |-> FALSE,
            panicked |-> FALSE ]

PoolInit ==
    /\ pool \in { NewHTTPPool(self) : self \in PoolPeers }
    /\ picked = NoPick

\* p.Set(peers...)
DoSet(peerList) ==
    /\ pool' = PoolSet(pool, peerList)
    /\ picked' = NoPick
    /\ UNCHANGED <<lruVars, ringVars, groupVars, serverVars, addVars, fleetVars>>

\* p.PickPeer(key)
DoPickPeer(key) ==
    /\ LET r == PickPeer(pool, key)
       IN picked' = [ op |-> "PickPeer", key |-> key, client |-> r.client,
                      ok |-> r.ok, panicked |-> r.panicked ]
    /\ UNCHANGED <<pool, lruVars, ringVars, groupVars, serverVars, addVars, fleetVars>>

InitPool ==
    PoolInit /\ LruIdle /\ RingIdle /\ GroupIdle /\ ServerIdle /\ AddIdle /\ FleetIdle

NextPool ==
    \/ \E peerList \in PeerLists : DoSet(peerList)
    \/ \E key \in PoolKeys : DoPickPeer(key)

SpecPool == InitPool /\ [][NextPool]_vars

\* the smallest element of a non-empty set of integers
MinOf(S) == CHOOSE x \in S : \A y \in S : x <= y

\* the owner of key on the ring: the peer bound to the first hash at or after
\* the key's, or to the smallest hash when there is none
RingOwner(mm, key) ==
    LET ring == Range(mm.keys)
        atOrAfter == { h \in ring : h >= HashFn(key) }
    IN Owner(mm.hashMap, IF atOrAfter = {} THEN MinOf(ring) ELSE MinOf(atOrAfter))

\* the pool's ring holds no hash: no Set was made, or Set had no peers
RingEmpty(p) == p.peers.nil \/ p.peers.map.keys = << >>

\* C11: PickPeer(key) returns selected == false whenever the pool's ring is
\* empty (no peers set) or the owner of key on the ring is the pool's self;
\* otherwise it returns selected == true together with the client Set made
\* for the owning peer.
C11_PickPeerSelects ==
    picked.op = "PickPeer" =>
        /\ ~picked.panicked
        /\ IF RingEmpty(pool) \/ RingOwner(pool.peers.map, picked.key) = pool.self
           THEN ~picked.ok
           ELSE /\ picked.ok
                /\ picked.client =
                     NewHttpClient(RingOwner(pool.peers.map, picked.key) \o pool.basePath)

\* C12: a picker is attached to a group at most once: a RegisterPeers call
\* made when no picker is attached attaches its argument, and every call made
\* after a picker has been attached panics and leaves the picker as it was.
C12_RegisterPeersOnce ==
    attach.op = "RegisterPeers" =>
        IF attach.before = NoPicker
        THEN ~attach.panicked /\ peers = attach.picker
        ELSE attach.panicked /\ peers = attach.before

\* a second picker was offered to a group that had one
C12_Witness ==
    /\ attach.op = "RegisterPeers"
    /\ attach.before \in Pickers
    /\ attach.picker \in Pickers \ {attach.before}

\* C13: when the loader returns an error during Get(k), on a local miss or
\* after a failed remote fetch, Get returns that error as it is and the local
\* cache is as it was when the Get began: nothing is admitted under k and
\* now_bytes is what it was.
C13_LoaderErrorSurfaced ==
    \A t \in Threads :
        LET cl == call[t]
        IN (cl.done /\ cl.loaderErr # "") =>
            /\ cl.err = cl.loaderErr
            /\ ~cl.admitted
            /\ cl.key \notin ShellKeys(mainCache)
            /\ mainCache.lru = cl.before
            /\ mainCache.lru.nowBytes = cl.before.nowBytes

\* the loader failed after a failed remote fetch, beside a cache that holds
\* another key
C13_Witness ==
    /\ call[1].done /\ call[1].loaderErr # ""
    /\ call[1].remote = "err"
    /\ ShellKeys(mainCache) # {}

\* C15: Get with the empty key fails with the key-required error; the loader
\* is not called, the picker is not asked, no peer is fetched from and the
\* local cache is as it was.
C15_EmptyKeyRejected ==
    \A t \in Threads :
        LET cl == call[t]
        IN (cl.done /\ cl.key = NoKey) =>
            /\ cl.err = "key is required"
            /\ cl.loaderCalls = 0 /\ cl.picks = 0 /\ cl.remote = "none"
            /\ ~cl.hit /\ ~cl.admitted
            /\ mainCache.lru = cl.before

\* Get("") on a group that has a picker and a resident key
C15_Witness ==
    /\ call[1].done /\ call[1].key = NoKey
    /\ peers # NoPicker
    /\ ShellKeys(mainCache) # {}

--------------------------------------------------------------------------
(* HTTPPool.ServeHTTP: the peer server over the registry of groups.        *)

\* the byte '/'
Slash == 47

StatusOK == 200
StatusBadRequest == 400
StatusNotFound == 404
StatusInternalServerError == 500

\* strings.HasPrefix(str, prefix)
HasPrefix(str, prefix) ==
    Len(str) >= Len(prefix) /\ SubSeq(str, 1, Len(prefix)) = prefix

\* str[n:]
DropPrefix(str, n) == SubSeq(str, n + 1, Len(str))

\* strings.Index(str, "/"), 1-based; 0 when str holds no '/'
IndexSlash(str) ==
    IF \E i \in 1..Len(str) : str[i] = Slash
    THEN CHOOSE i \in 1..Len(str) :
            str[i] = Slash /\ \A j \in 1..(i - 1) : str[j] # Slash
    ELSE 0

\* strings.SplitN(str, "/", 2): str alone when it holds no '/', else what
\* stands before the first '/' and what stands after it
SplitN2(str) ==
    LET i == IndexSlash(str)
    IN IF i = 0 THEN << str >>
       ELSE << SubSeq(str, 1, i - 1), SubSeq(str, i + 1, Len(str)) >>

\* GetGroup(name): [found, group]
GetGroup(registry, name) ==
    IF name \in DOMAIN registry
    THEN [ found |-> TRUE, group |-> registry[name] ]
    ELSE [ found |-> FALSE, group |-> NewShell(0) ]

\* Group.Get(key) on a group without a picker, run to its end, with the
\* loader answering (bytes, e): [mainCache, value, err]
GetToEnd(mc, key, bytes, e) ==
    IF key = NoKey
    THEN [ mainCache |-> mc, value |-> ZeroView, err |-> "key is required" ]
    ELSE LET r == ShellGet(mc, key)
         IN IF r.ok
            THEN [ mainCache |-> [mc EXCEPT !.lru = r.lru], value |-> r.value,
                   err |-> "" ]
            ELSE IF e # ""
            THEN [ mainCache |-> mc, value |-> ZeroView, err |-> e ]
            ELSE [ mainCache |-> [mc EXCEPT !.lru =
                                    ShellAdd(mc, key, LocalView(Owned(bytes)))],
                   value |-> LocalView(Owned(bytes)), err |-> "" ]

NoBody == << >>

\* HTTPPool.ServeHTTP for the request path, with the loader of the group
\* answering (bytes, e): [registry, status, msg, name, body, panicked]
ServeHTTP(basePath, registry, path, bytes, e) ==
    IF ~HasPrefix(path, basePath)
    THEN [ registry |-> registry, status |-> 0, msg |-> "", name |-> << >>,
           body |-> NoBody, panicked |-> TRUE ]
    ELSE
    LET parts == SplitN2(DropPrefix(path, Len(basePath)))
    IN IF Len(parts) # 2
       THEN [ registry |-> registry, status |-> StatusBadRequest,
              msg |-> "bad request", name |-> << >>, body |-> NoBody,
              panicked |-> FALSE ]
       ELSE
       LET groupName == parts[1]
           key == parts[2]
           g == GetGroup(registry, groupName)
       IN IF ~g.found
          THEN [ registry |-> registry, status |-> StatusNotFound,
                 msg |-> "no such group: ", name |-> groupName, body |-> NoBody,
                 panicked |-> FALSE ]
          ELSE
          LET r == GetToEnd(g.group, key, bytes, e)
              after == [registry EXCEPT ![groupName] = r.mainCache]
          IN IF r.err # ""
             THEN [ registry |-> after, status |-> StatusInternalServerError,
                    msg |-> r.err, name |-> << >>, body |-> NoBody,
                    panicked |-> FALSE ]
             ELSE [ registry |-> after, status |-> StatusOK, msg |-> "",
                    name |-> << >>, body |-> SliceBytes(ByteSlice(r.value)),
                    panicked |-> FALSE ]

\* the groups of the registry, and the names and keys requests carry
GroupNames == { <<1>>, <<2>> }
ServerKeys == { <<1>>, <<1, Slash, 2>> }

\* what follows basePath in a request: nothing, a name alone, a name and
\* '/', '/' and a key, '/' alone, or a name, '/' and a key
Remainders ==
    { << >>, <<Slash>> }
    \cup { g : g \in GroupNames \cup { <<3>> } }
    \cup { g \o <<Slash>> : g \in GroupNames }
    \cup { <<Slash>> \o k : k \in ServerKeys }
    \cup { g \o <<Slash>> \o k : g \in GroupNames \cup { <<3>> }, k \in ServerKeys }

\* the request paths: under basePath, and one that is not
RequestPaths == { defaultBasePath \o rest : rest \in Remainders } \cup { <<Slash, 1>> }

NoResponse == [ op |-> "none", path |-> << >>, registered |-> {}, status |-> 0,
                msg |-> "", name |-> << >>, body |-> NoBody, panicked |-> FALSE,
                getErr |-> "", cached |-> NoBody ]

\* NewGroup for some of the names, with a ceiling each
ServerInit ==
    /\ \E names \in SUBSET GroupNames :
         groups \in [ names -> { NewShell(cb) : cb \in {0, 4} } ]
    /\ response = NoResponse

\* one request served.  registered holds the names of the registry; getErr
\* and cached are what Group.Get returned to the handler when it was called
DoServeHTTP(path) ==
    \E bytes \in SrcValues, e \in LoaderErrors \cup {""} :
        LET r == ServeHTTP(defaultBasePath, groups, path, bytes, e)
            parts == SplitN2(DropPrefix(path, Len(defaultBasePath)))
            called == ~r.panicked /\ Len(parts) = 2 /\ parts[1] \in DOMAIN groups
            get == GetToEnd(groups[parts[1]], parts[2], bytes, e)
        IN /\ groups' = r.registry
           /\ response' = [ op |-> "ServeHTTP", path |-> path,
                            registered |-> DOMAIN groups,
                            status |-> r.status, msg |-> r.msg, name |-> r.name,
                            body |-> r.body, panicked |-> r.panicked,
                            getErr |-> IF called THEN get.err ELSE "",
                            cached |-> IF called /\ get.err = ""
                                       THEN SliceBytes(get.value.b) ELSE NoBody ]
           /\ UNCHANGED <<lruVars, ringVars, groupVars, poolVars, addVars, fleetVars>>

InitServer ==
    ServerInit /\ LruIdle /\ RingIdle /\ GroupIdle /\ PoolIdle /\ AddIdle /\ FleetIdle

NextServer == \E path \in RequestPaths : DoServeHTTP(path)

SpecServer == InitServer /\ [][NextServer]_vars

\* the group name and the key a remainder carries: what stands before its
\* first '/' (all of it when there is none) and what stands after it (nothing
\* when there is none)
GroupPiece(rest) ==
    IF IndexSlash(rest) = 0 THEN rest ELSE SubSeq(rest, 1, IndexSlash(rest) - 1)
KeyPiece(rest) ==
    IF IndexSlash(rest) = 0 THEN << >>
    ELSE SubSeq(rest, IndexSlash(rest) + 1, Len(rest))

\* C14: a request under basePath is answered with 400 when the group name or
\* the key is missing from the remainder of its path, with 404 when the group
\* is not in the registry, with 500 when Group.Get fails, and with 200 and
\* the cached bytes otherwise.
C14_ServerStatus ==
    (response.op = "ServeHTTP" /\ HasPrefix(response.path, defaultBasePath)) =>
        LET rest == DropPrefix(response.path, Len(defaultBasePath))
        IN /\ ~response.panicked
           /\ IF GroupPiece(rest) = << >> \/ KeyPiece(rest) = << >>
              THEN response.status = StatusBadRequest
              ELSE IF GroupPiece(rest) \notin response.registered
              THEN response.status = StatusNotFound
              ELSE IF response.getErr # ""
              THEN response.status = StatusInternalServerError
              ELSE /\ response.status = StatusOK
                   /\ response.body = response.cached

--------------------------------------------------------------------------
(* Map.Get and the order of the Add calls.                                 *)

\* the lists that hold each peer of S once, in every order
Orderings(S) ==
    { list \in [ 1..Cardinality(S) -> S ] :
        \A i, j \in 1..Cardinality(S) : i # j => list[i] # list[j] }

\* Get(k) on a non-empty ring returns the owner of the smallest ring hash at
\* or after hash_fn(k), and of the smallest ring hash when there is none
GetReturnsSuccessor ==
    (got.op = "Get" /\ m.keys # << >>) => got.peer = RingOwner(m, got.key)

\* on a ring built by Add calls alone, Get(k) returns what it returns on the
\* ring one Add call builds from the same peers, whatever their order
GetIgnoresAddOrder ==
    (got.op = "Get" /\ addsOnly) =>
        \A list \in Orderings(registered) :
            MapGet(MapAdd(MapNew(m.replicas), list), got.key) = got.peer

\* C16 (as stated): Get(k) on a non-empty ring returns the owner of the
\* smallest ring hash >= hash_fn(k), wrapping to the smallest hash of the
\* ring; the result depends only on the set of added peers, not on the order
\* or grouping of the Add calls.
C16_GetBySetOfPeers == GetReturnsSuccessor /\ GetIgnoresAddOrder

\* C16 (amended): Get(k) on a non-empty ring returns the owner of the
\* smallest ring hash >= hash_fn(k), wrapping to the smallest hash of the
\* ring; when no virtual nodes of two different added peers have the same
\* hash, the result depends only on the set of added peers, not on the order
\* or grouping of the Add calls.
C16_GetBySetOfPeersNoCollision ==
    /\ GetReturnsSuccessor
    /\ NoCollisions(registered, m.replicas) => GetIgnoresAddOrder

\* a Get that wrapped around, on a ring two peers without a collision were
\* added to
C16_Witness ==
    /\ got.op = "Get" /\ addsOnly
    /\ Cardinality(registered) = 2
    /\ NoCollisions(registered, m.replicas)
    /\ \A i \in 1..Len(m.keys) : m.keys[i] < HashFn(got.key)

--------------------------------------------------------------------------
(* Cache.Add on a resident key.                                            *)

\* the step is an Add(k, v) on a key that was resident
IsReplace == lastOp'.op = "Add" /\ lastOp'.key \in c.cache

\* the list a replacing Add(k, v) has before it evicts: (k, v) first, then
\* the other entries in their order
Replaced(cc, key, value) ==
    <<[key |-> key, value |-> value]>> \o SelectSeq(cc.ll, LAMBDA e : e.key # key)

\* the weights of the first n entries of a list
BytesOf(ll, n) == SumSeq([ i \in 1..n |-> EntryBytes(ll[i]) ])

\* the replacement and its accounting: as many entries as before stand
\* before the eviction, now_bytes moves by v.Len() minus the old length (less
\* what was evicted), and the entries kept are the first ones of the list
\* with (k, v) first, cut from the tail on and no further than the ceiling asks
ReplaceAccounted ==
    LET key == lastOp'.key
        value == lastOp'.value
        old == c.ll[Element(c, key)].value
        full == Replaced(c, key, value)
        kept == Len(c'.ll)
    IN /\ Len(full) = Len(c.ll)
       /\ kept <= Len(full) /\ c'.ll = SubSeq(full, 1, kept)
       /\ c'.nowBytes + (BytesOf(full, Len(full)) - BytesOf(full, kept))
            = c.nowBytes + ValueLen(value) - ValueLen(old)
       /\ ValueLen(value) = ValueLen(old) =>
            (c'.nowBytes = c.nowBytes /\ kept = Len(full))
       /\ c'.maxBytes # 0 => c'.nowBytes <= c'.maxBytes
       /\ kept < Len(full) => BytesOf(full, kept + 1) > c'.maxBytes

\* after the Add, k is resident and first and Get(k) returns v
ReplaceReadable ==
    LET key == lastOp'.key
        value == lastOp'.value
    IN /\ key \in c'.cache
       /\ c'.ll[1].key = key
       /\ LruGet(c', key).ok /\ LruGet(c', key).value = value

\* (k, v) alone outweighs the ceiling
TooHeavy(cc, key, value) ==
    cc.maxBytes # 0 /\ Len(key) + ValueLen(value) > cc.maxBytes

\* C17 (as stated): Add(k, v) on a resident key keeps Len unchanged before
\* eviction, replaces the value so that a following Get(k) returns v, promotes
\* k to the front and changes now_bytes by v.Len() minus the old length (zero
\* for the same length); entries are then evicted tail-first until the
\* ceiling holds.
C17_ReplaceInPlace == [][IsReplace => (ReplaceAccounted /\ ReplaceReadable)]_vars

\* C17 (amended): the same, except that when (k, v) alone outweighs the
\* ceiling the eviction reaches k itself: the engine is left empty and a
\* following Get(k) misses.
C17_ReplaceInPlaceUnlessTooHeavy ==
    [][IsReplace =>
        /\ ReplaceAccounted
        /\ IF TooHeavy(c, lastOp'.key, lastOp'.value)
           THEN c'.ll = << >> /\ ~LruGet(c', lastOp'.key).ok
           ELSE ReplaceReadable]_vars

\* a replacing Add with a longer value evicted another entry and kept its own
C17_Witness ==
    /\ lastOp.op = "Add" /\ lastOp.hit
    /\ lastGone # {}
    /\ lastOp.key \in c.cache
    /\ Len(c.ll) >= 1

--------------------------------------------------------------------------
(* Cache.Add statement by statement: the admission, then one turn of the   *)
(* loop at a time.                                                         *)

\* the ceilings New is given: below zero, none, and two that evictions meet
AddCeilings == { -1, 0, 3, 6 }

\* one value of each length
AddValues == { ByteView(Owned([ i \in 1..n |-> 7 ])) : n \in 0..MaxValLen }

AddInit ==
    /\ addC \in { New(mb, FALSE) : mb \in AddCeilings }
    /\ addPc = "idle"

\* c.Add(key, value) up to its loop
AddBegin(key, value) ==
    /\ addPc = "idle"
    /\ addC' = AdmitNoLoop(addC, key, value)
    /\ addPc' = "loop"
    /\ UNCHANGED <<lruVars, ringVars, groupVars, poolVars, serverVars, fleetVars>>

\* the loop of Add: its test, and c.RemoveOldest() or the return
AddLoop ==
    /\ addPc = "loop"
    /\ IF addC.maxBytes # 0 /\ addC.maxBytes < addC.nowBytes
       THEN /\ addC' = RemoveOldest(addC).c
            /\ addPc' = "loop"
       ELSE /\ addC' = addC
            /\ addPc' = "idle"
    /\ UNCHANGED <<lruVars, ringVars, groupVars, poolVars, serverVars, fleetVars>>

InitAdd ==
    AddInit /\ LruIdle /\ RingIdle /\ GroupIdle /\ PoolIdle /\ ServerIdle /\ FleetIdle

NextAdd ==
    \/ \E key \in LKeys, value \in AddValues : AddBegin(key, value)
    \/ AddLoop

\* the goroutine inside Add keeps running
SpecAdd == InitAdd /\ [][NextAdd]_vars /\ WF_vars(AddLoop)

\* C18: every call of Cache.Add terminates, for every ceiling and every entry
\* weight: the loop makes finitely many RemoveOldest calls and returns.
C18_AddTerminates == (addPc = "loop") ~> (addPc = "idle")

--------------------------------------------------------------------------
(* Two callers of Group.Get on one group without a picker.                 *)

InitGroup2 ==
    /\ GroupInit
    /\ pc = [ t \in Threads |-> "idle" ]
    /\ LruIdle
    /\ RingIdle
    /\ PoolIdle
    /\ ServerIdle
    /\ AddIdle
    /\ FleetIdle

NextGroup2 ==
    \/ \E key \in GKeys, data \in SrcValues : MutateSource(key, data)
    \/ \E t \in Threads, key \in GKeys : GroupGet(t, key)
    \/ \E t \in Threads : CacheGetLock(t)
    \/ \E t \in Threads : CacheGetBody(t)
    \/ \E t \in Threads : GroupLoad(t)
    \/ \E t \in Threads : GroupGetLocally(t)
    \/ \E t \in Threads : CacheAddLock(t)
    \/ \E t \in Threads : CacheAddBody(t)

SpecGroup2 == InitGroup2 /\ [][NextGroup2]_vars

\* the places of Group.Get where the thread holds the shell's lock
Locked == { "get.locked", "add.locked" }

\* the lock is held by the one thread that is inside cache.get or cache.add,
\* and by no thread that is at the loader
LockSerializes ==
    /\ \A t \in Threads : (pc[t] \in Locked) <=> (mainCache.mu = t)
    /\ \A t, u \in Threads : (pc[t] \in Locked /\ pc[u] \in Locked) => t = u
    /\ \A t \in Threads : pc[t] \in { "load", "getLocally" } => mainCache.mu # t

\* both threads have returned from a Get of one key that missed, was loaded
\* and admitted
BothMissed ==
    /\ \A t \in Threads :
         /\ call[t].done /\ ~call[t].hit /\ call[t].err = "" /\ call[t].admitted
         /\ call[t].key = call[1].key
    /\ \A t \in Threads : pc[t] = "idle"

\* the entries the engine holds for key
EntriesFor(mc, key) == { i \in 1..Len(mc.lru.ll) : mc.lru.ll[i].key = key }

\* the engine's accounting: now_bytes is the weight of the resident entries
\* and within the ceiling
ShellAccounted(mc) ==
    /\ mc.lru.nowBytes = ResidentBytes(mc.lru)
    /\ mc.cacheBytes # 0 => mc.lru.nowBytes <= mc.cacheBytes

\* each thread that missed called the loader once, with no lock held
EachMissLoads ==
    \A t \in Threads :
        (call[t].done /\ ~call[t].hit /\ call[t].key # NoKey) =>
            call[t].loaderCalls = 1

\* C20 (as stated): when two threads Get(k) concurrently and both miss, each
\* invokes the loader, the admissions are serialized by the shell's lock, and
\* after both return the cache holds exactly one entry for k, with now_bytes
\* the weight of the resident entries and within the ceiling; the loader is
\* never invoked while the lock is held.
C20_ConcurrentMisses ==
    /\ LockSerializes
    /\ EachMissLoads
    /\ BothMissed =>
         /\ Cardinality(EntriesFor(mainCache, call[1].key)) = 1
         /\ ShellAccounted(mainCache)

\* C20 (amended): the same, with at most one entry for k after both return:
\* exactly one, unless the entry admitted last alone outweighs the ceiling
\* and was evicted by the Add that admitted it.
C20_ConcurrentMissesUnlessOversized ==
    /\ LockSerializes
    /\ EachMissLoads
    /\ BothMissed =>
         /\ Cardinality(EntriesFor(mainCache, call[1].key)) =
              IF Oversized(mainCache, call[1].key, loadedBytes[call[1].key])
              THEN 0 ELSE 1
         /\ ShellAccounted(mainCache)

\* both threads missed on one key, loaded it and admitted it, and the key is
\* resident beside another one
C20_Witness ==
    /\ BothMissed
    /\ call[1].key \in ShellKeys(mainCache)
    /\ Cardinality(ShellKeys(mainCache)) = 2

--------------------------------------------------------------------------
(* A fleet: every node runs a group, a pool set with the fleet's peer      *)
(* list and a peer server; a Get at one node may be fetched from another.  *)
(* The characters '0'..'9' are written 0..9; every other byte is written   *)
(* as its ASCII code.                                                      *)

\* longest chain of Get calls a client's Get is followed through
MaxChain == 4

Space == 32
Plus == 43
Percent == 37

\* the upper-case hexadecimal digit of n < 16, and the value of a digit
HexDigit(n) == IF n < 10 THEN n ELSE 65 + (n - 10)
HexValue(d) == IF d < 10 THEN d ELSE IF d >= 97 THEN d - 87 ELSE d - 55
IsHex(d) == d \in (0..9) \cup (65..70) \cup (97..102)

\* the bytes url.QueryEscape leaves as they are: letters, digits, - _ . ~
Unreserved(b) == b \in (0..9) \cup (65..90) \cup (97..122) \cup {45, 95, 46, 126}

\* url.QueryEscape(str): a space becomes '+', every other byte that is not
\* unreserved becomes %XX
RECURSIVE QueryEscape(_)
QueryEscape(str) ==
    IF str = << >> THEN << >>
    ELSE LET b == Head(str)
         IN (IF b = Space THEN <<Plus>>
             ELSE IF Unreserved(b) THEN <<b>>
             ELSE <<Percent, HexDigit(b \div 16), HexDigit(b % 16)>>)
            \o QueryEscape(Tail(str))

\* the decoding that gives URL.Path: %XX becomes the byte, '+' stays '+'
RECURSIVE PathUnescape(_)
PathUnescape(str) ==
    IF str = << >> THEN << >>
    ELSE IF Head(str) = Percent /\ Len(str) >= 3 /\ IsHex(str[2]) /\ IsHex(str[3])
    THEN <<HexValue(str[2]) * 16 + HexValue(str[3])>>
         \o PathUnescape(SubSeq(str, 4, Len(str)))
    ELSE <<Head(str)>> \o PathUnescape(Tail(str))

\* the one group every node registers
FleetGroup == <<1>>

\* the URL path httpClient.Get asks for, less the host: baseURL's path, the
\* escaped group, '/', the escaped key
RequestPath(basePath, group, key) ==
    basePath \o QueryEscape(group) \o <<Slash>> \o QueryEscape(key)

\* the key the peer server reads from the path it is asked for: it stands
\* after the first '/' of what follows basePath in the decoded path
ServedKey(basePath, path) ==
    LET parts == SplitN2(DropPrefix(PathUnescape(path), Len(basePath)))
    IN IF Len(parts) = 2 THEN parts[2] ELSE << >>

\* the host a client was made for: its baseURL less basePath
HostOf(client, basePath) == SubSeq(client.baseURL, 1, Len(client.baseURL) - Len(basePath))

\* the peer lists of the fleet, the same at every node
FleetLists == { << <<2>>, <<4>> >>, << <<4>>, <<2>>, <<0, 2>> >> }

\* the keys clients ask for: a digit, a space, a plus sign
FleetKeys == { <<1>>, <<Space>>, <<Plus>> }

\* the cacheBytes of every node's group: room for one entry
FleetCeiling == 2

\* one Get in progress at a node.  pc: "get" before the cache is read, "fetch"
\* before the peer is asked, "wait" while the peer serves, "local" before the
\* loader is called, "reply" when the result stands
Frame(node, key) ==
    [ node |-> node, key |-> key, pc |-> "get", owner |-> << >>,
      value |-> ZeroView, err |-> "" ]

NoReq == [ op |-> "none", origin |-> << >>, key |-> << >>, route |-> << >>,
           fetches |-> 0, done |-> FALSE, value |-> ZeroView, err |-> "" ]

\* every node: NewHTTPPool(self), Set(list...), NewGroup and RegisterPeers
FleetInit ==
    /\ \E list \in FleetLists :
         nodes = [ n \in Range(list) |->
                     [ pool |-> PoolSet(NewHTTPPool(n), list),
                       mainCache |-> NewShell(FleetCeiling) ] ]
    /\ chain = << >>
    /\ req = NoReq

Top == chain[Len(chain)]
SetTop(frame) == [chain EXCEPT ![Len(chain)] = frame]

\* a client calls Group.Get(key) at node n
FleetGet(n, key) ==
    /\ chain = << >>
    /\ chain' = << Frame(n, key) >>
    /\ req' = [NoReq EXCEPT !.op = "Get", !.origin = n, !.key = key, !.route = <<n>>]
    /\ UNCHANGED <<nodes, lruVars, ringVars, groupVars, poolVars, serverVars, addVars>>

\* Group.Get up to load's PickPeer: the key test, the cache, the picker
FleetLookup ==
    /\ chain # << >> /\ Top.pc = "get"
    /\ LET f == Top
           n == nodes[f.node]
           r == ShellGet(n.mainCache, f.key)
           pick == PickPeer(n.pool, f.key)
       IN IF f.key = NoKey
          THEN /\ chain' = SetTop([f EXCEPT !.pc = "reply", !.err = "key is required"])
               /\ nodes' = nodes
          ELSE IF r.ok
          THEN /\ chain' = SetTop([f EXCEPT !.pc = "reply", !.value = r.value])
               /\ nodes' = [nodes EXCEPT ![f.node].mainCache.lru = r.lru]
          ELSE IF pick.ok
          THEN /\ chain' = SetTop([f EXCEPT !.pc = "fetch",
                                            !.owner = HostOf(pick.client, n.pool.basePath)])
               /\ nodes' = nodes
          ELSE /\ chain' = SetTop([f EXCEPT !.pc = "local"])
               /\ nodes' = nodes
    /\ UNCHANGED <<req, lruVars, ringVars, groupVars, poolVars, serverVars, addVars>>

\* getFromPeer: httpClient.Get fails to reach the peer, and load goes on to
\* getLocally, or the peer's server takes the request and calls Group.Get
\* with the key it reads from the path
FleetFetch ==
    /\ chain # << >> /\ Top.pc = "fetch"
    /\ Len(chain) < MaxChain
    /\ LET f == Top
           basePath == nodes[f.node].pool.basePath
           path == RequestPath(basePath, FleetGroup, f.key)
       IN \E reached \in BOOLEAN :
            IF reached /\ f.owner \in DOMAIN nodes
            THEN /\ chain' = Append(SetTop([f EXCEPT !.pc = "wait"]),
                                    Frame(f.owner, ServedKey(basePath, path)))
                 /\ req' = [req EXCEPT !.fetches = @ + 1,
                                       !.route = Append(@, f.owner)]
            ELSE /\ chain' = SetTop([f EXCEPT !.pc = "local"])
                 /\ req' = [req EXCEPT !.fetches = @ + 1]
    /\ UNCHANGED <<nodes, lruVars, ringVars, groupVars, poolVars, serverVars, addVars>>

\* getLocally: the loader fails, or its bytes are copied and admitted
FleetLocal ==
    /\ chain # << >> /\ Top.pc = "local"
    /\ LET f == Top
       IN \E e \in LoaderErrors \cup {""} :
            IF e # ""
            THEN /\ chain' = SetTop([f EXCEPT !.pc = "reply", !.err = e])
                 /\ nodes' = nodes
            ELSE LET view == LocalView(Owned(f.key))
                 IN /\ chain' = SetTop([f EXCEPT !.pc = "reply", !.value = view])
                    /\ nodes' = [nodes EXCEPT ![f.node].mainCache.lru =
                                   ShellAdd(nodes[f.node].mainCache, f.key, view)]
    /\ UNCHANGED <<req, lruVars, ringVars, groupVars, poolVars, serverVars, addVars>>

\* Group.Get returns: to the client, or to the peer server, which answers
\* 500 or 200 with the bytes; the waiting getFromPeer then has an error,
\* after which load goes on to getLocally, or the view of the body
FleetReply ==
    /\ chain # << >> /\ Top.pc = "reply"
    /\ LET f == Top
       IN IF Len(chain) = 1
          THEN /\ chain' = << >>
               /\ req' = [req EXCEPT !.done = TRUE, !.value = f.value, !.err = f.err]
          ELSE LET parent == chain[Len(chain) - 1]
                   rest == SubSeq(chain, 1, Len(chain) - 1)
               IN /\ chain' =
                       [rest EXCEPT ![Len(rest)] =
                          IF f.err # ""
                          THEN [parent EXCEPT !.pc = "local"]
                          ELSE [parent EXCEPT !.pc = "reply",
                                   !.value = PeerView(Owned(SliceBytes(ByteSlice(f.value))))]]
                  /\ req' = req
    /\ UNCHANGED <<nodes, lruVars, ringVars, groupVars, poolVars, serverVars, addVars>>

InitFleet ==
    FleetInit /\ LruIdle /\ RingIdle /\ GroupIdle /\ PoolIdle /\ ServerIdle /\ AddIdle

FleetStep == FleetLookup \/ FleetFetch \/ FleetLocal \/ FleetReply

NextFleet ==
    \/ \E n \in DOMAIN nodes, key \in FleetKeys : FleetGet(n, key)
    \/ FleetLookup
    \/ FleetFetch
    \/ FleetLocal
    \/ FleetReply

\* the goroutines that serve a Get keep running
SpecFleet == InitFleet /\ [][NextFleet]_vars /\ WF_vars(FleetStep)

\* the ring every pool of the fleet holds
FleetRing == nodes[req.origin].pool.peers.map

\* at most one remote fetch per client Get; the node it goes to is the ring
\* owner of the key, is asked for the key itself and does not fetch in turn
OneFetch ==
    req.op = "Get" =>
        /\ req.fetches <= 1
        /\ Len(chain) <= 2
        /\ \A i \in 2..Len(chain) :
             /\ chain[i].node = RingOwner(FleetRing, req.key)
             /\ chain[i].node # req.origin
             /\ chain[i].key = req.key
             /\ chain[i].pc \in { "get", "local", "reply" }

\* C19: in a fleet whose pools were all Set with the same peer list, each
\* node's self being its own entry, a Get(k) at any node triggers at most one
\* remote fetch: the node it is forwarded to is the ring owner, picks itself
\* and resolves the key locally, no request is forwarded a second time or
\* back to the requester, and every Get eventually returns.
C19_ForwardedOnce == []OneFetch /\ ((chain # << >>) ~> (chain = << >>))

==========================================================================
